---- MODULE Spec2Model ----
(***************************************************************************)
(* winerr: retrieval and formatting of Windows error messages (src/lib.rs). *)
(*                                                                         *)
(* The crate is a value type Error{code: u32}, three constructors, a       *)
(* formatting routine over FormatMessageW with a two-level fallback, and a  *)
(* conversion to std::io::Error.  The host (GetLastError, FormatMessageW)   *)
(* is modelled as a last-error slot and a message catalog fixed at start.   *)
(*                                                                         *)
(* Numbers.  TLC's integers are 32-bit signed, so a u32 is kept at its full *)
(* width as two 16-bit limbs [hi, lo]; an i32 is a plain integer.  Text is  *)
(* a sequence of Unicode scalar values, a wide string a sequence of UTF-16  *)
(* code units.                                                             *)
(***************************************************************************)
EXTENDS Integers, Sequences, FiniteSets, TLC

VARIABLES lastError, catalog, errs, ev

vars == <<lastError, catalog, errs, ev>>

(***************************************************************************)
(* u32 and i32                                                             *)
(***************************************************************************)
Limb == 2^16

U(h, l) == [hi |-> h, lo |-> l]

IsU32(c) == c.hi \in 0..(Limb - 1) /\ c.lo \in 0..(Limb - 1)

I32Min == -2147483647 - 1

I32Max == 2147483647

\* Bit k (0..31) of the two's-complement pattern of the i32 x.
BitOfI32(x, k) == (x \div (2^k)) % 2

\* Bit k (0..15) of a 16-bit limb.
BitOfLimb(l, k) == (l \div (2^k)) % 2

\* Sum over bits 0..n-1 of f[k] * 2^k.
RECURSIVE SumBits(_, _)
SumBits(f, n) == IF n = 0 THEN 0 ELSE SumBits(f, n - 1) + f[n - 1] * 2^(n - 1)

\* `x as u32` for an i32 x: the same 32 bits, read unsigned.
AsU32(x) ==
    U(SumBits([k \in 0..15 |-> IF k < 15 THEN BitOfI32(x, k + 16)
                                        ELSE IF x < 0 THEN 1 ELSE 0], 16),
      SumBits([k \in 0..15 |-> BitOfI32(x, k)], 16))

\* A saturating conversion: what `i32::try_from(c).unwrap_or(i32::MAX)` would store.
AsI32Saturating(c) ==
    IF c.hi >= 2^15 THEN I32Max ELSE c.hi * Limb + c.lo

\* `c as i32` for a u32 c: the same 32 bits, read signed (bit 31 weighs -2^31).
AsI32(c) ==
    LET low31 == (c.hi % 2^15) * Limb + c.lo
    IN  IF BitOfLimb(c.hi, 15) = 1 THEN (low31 - I32Max) - 1 ELSE low31

\* hr & 0xFFFF without the mask: the whole status kept.
HRESULT_CODE_Unmasked(hr) == hr

\* winapi's HRESULT_CODE(hr) = hr & 0xFFFF, bit by bit on the i32 pattern.
HRESULT_CODE(hr) ==
    LET mask == [k \in 0..31 |-> IF k < 16 THEN 1 ELSE 0]
    IN  SumBits([k \in 0..30 |-> BitOfI32(hr, k) * mask[k]], 31)

(***************************************************************************)
(* Text                                                                    *)
(***************************************************************************)
\* The decimal digits of n (0 <= n < 10 * 2^16), most significant first.
RECURSIVE DecSmall(_)
DecSmall(n) == IF n < 10 THEN <<48 + n>> ELSE DecSmall(n \div 10) \o <<48 + (n % 10)>>

\* u32 / 10 and u32 % 10 by long division over the limbs.
DivMod10(c) ==
    LET qh  == c.hi \div 10
        mid == (c.hi % 10) * Limb + c.lo
    IN  [q |-> U(qh + ((mid \div 10) \div Limb), (mid \div 10) % Limb), r |-> mid % 10]

\* `{}` of a u32: its decimal digits, no sign, no padding.
RECURSIVE DisplayU32(_)
DisplayU32(c) ==
    IF c.hi = 0 THEN DecSmall(c.lo)
    ELSE DisplayU32(DivMod10(c).q) \o <<48 + DivMod10(c).r>>

\* char::is_whitespace: the Unicode White_Space property.
IsWhitespace(ch) ==
    \/ ch \in 9..13
    \/ ch \in {32, 133, 160, 5760, 8232, 8233, 8239, 8287, 12288}
    \/ ch \in 8192..8202

IsHighSurrogate(u) == u \in 55296..56319

IsLowSurrogate(u) == u \in 56320..57343

REPLACEMENT_CHARACTER == 65533

\* String::from_utf16_lossy: a high surrogate followed by a low one becomes one
\* scalar value, any other surrogate becomes U+FFFD, every other unit is its
\* own scalar value.  (A high surrogate is never the second half of a pair, so
\* whether a unit starts or ends a pair depends on its neighbour alone.)
from_utf16_lossy(w) ==
    LET n == Len(w)
        StartsPair(i) == IsHighSurrogate(w[i]) /\ i < n /\ IsLowSurrogate(w[i + 1])
        EndsPair(i)   == IsLowSurrogate(w[i]) /\ i > 1 /\ IsHighSurrogate(w[i - 1])
        decoded == [i \in 1..n |->
                      IF StartsPair(i)
                      THEN 65536 + (w[i] - 55296) * 1024 + (w[i + 1] - 56320)
                      ELSE IF EndsPair(i) THEN -1
                      ELSE IF IsHighSurrogate(w[i]) \/ IsLowSurrogate(w[i])
                      THEN REPLACEMENT_CHARACTER
                      ELSE w[i]]
        Kept(ch) == ch # -1
    IN  SelectSeq(decoded, Kept)

\* The number of leading whitespace characters of s.
LeadingWhitespace(s) ==
    IF \A i \in 1..Len(s) : IsWhitespace(s[i]) THEN Len(s)
    ELSE (CHOOSE i \in 1..Len(s) :
             ~IsWhitespace(s[i]) /\ \A j \in 1..(i - 1) : IsWhitespace(s[j])) - 1

\* The number of trailing whitespace characters of s.
TrailingWhitespace(s) ==
    LET n == Len(s)
    IN  IF \A i \in 1..n : IsWhitespace(s[i]) THEN n
        ELSE (CHOOSE k \in 1..n :
                 ~IsWhitespace(s[n + 1 - k])
                    /\ \A j \in 1..(k - 1) : IsWhitespace(s[n + 1 - j])) - 1

\* str::trim_end alone: trailing whitespace removed, leading whitespace kept.
trim_end_only(s) == SubSeq(s, 1, Len(s) - TrailingWhitespace(s))

\* str::trim: s without its leading and its trailing whitespace, scanned from
\* each end up to the first character that is not whitespace.
trim(s) ==
    IF LeadingWhitespace(s) = Len(s) THEN <<>>
    ELSE SubSeq(s, LeadingWhitespace(s) + 1, Len(s) - TrailingWhitespace(s))

(***************************************************************************)
(* The host: the calling thread's last-error slot and the system message   *)
(* catalog behind FormatMessageW.                                          *)
(***************************************************************************)
ERROR_SUCCESS == U(0, 0)

ERROR_ACCESS_DENIED == U(0, 5)

ERROR_INSUFFICIENT_BUFFER == U(0, 122)

ERROR_MR_MID_NOT_FOUND == U(0, 317)

U32_MAX == U(Limb - 1, Limb - 1)

BUF_SIZE == 420

\* The wide text of a catalog entry, by the entry's name.
Message(name) ==
    CASE name = "ok"     -> <<79, 107, 46, 13, 10>>                  \* "Ok.\r\n"
      [] name = "pad"    -> <<32, 9, 97, 32, 98, 32, 13, 10>>      \* " \ta b \r\n"
      [] name = "multi"  -> <<123, 88, 125, 13, 10, 89, 32, 37, 104, 115, 13, 10>>   \* "{X}\r\nY %hs\r\n"
      [] name = "insert" -> <<114, 117, 110, 32, 37, 49, 46, 13, 10>>     \* "run %1.\r\n"
      [] name = "blank"  -> <<32, 13, 10>>                          \* " \r\n"
      [] name = "nbsp"   -> <<160, 97, 8195, 98, 12288, 13, 10>>    \* U+00A0 a U+2003 b U+3000 \r\n
      [] name = "pair"   -> <<55357, 56832, 46, 13, 10>>            \* U+1F600 as a surrogate pair
      [] name = "lone"   -> <<97, 55296, 98, 56832, 13, 10>>        \* unpaired surrogates
      [] name = "full"   -> [i \in 1..(BUF_SIZE - 1) |-> IF i < BUF_SIZE - 2 THEN 120
                                                          ELSE IF i = BUF_SIZE - 2 THEN 13 ELSE 10]
      [] name = "long"   -> [i \in 1..BUF_SIZE |-> 120]
      [] name = "nomsg"  -> <<78, 111, 32, 116, 101, 120, 116, 32, 102, 111, 114, 32, 48, 120, 37, 49, 32, 105, 110, 32, 37, 50, 46, 13, 10>>
      [] name = "over"   -> <<79, 107>>
      [] OTHER           -> <<>>

\* The catalog entry of a message id; ids the catalog does not list have none.
Lookup(cat, id) == IF id \in DOMAIN cat THEN cat[id] ELSE "none"

\* A FormatMessageW that stores a written length it did not write: the count
\* returned is one more than the buffer holds.
FormatMessageW_OverReport(cat, id, nSize, slot) ==
    LET m == Message(Lookup(cat, id))
    IN  [len |-> nSize + 1, written |-> m \o <<0>>, err |-> slot]

\* FormatMessageW(FROM_SYSTEM | IGNORE_INSERTS, NULL, id, 0, buf, nSize, NULL):
\* the number of code units stored (the terminating null excluded), or 0 with
\* the last-error slot set: no message for the id, or a message that does not
\* fit nSize units with its null.  Inserts (%1, %hs) are left as they are.
FormatMessageW(cat, id, nSize, slot) ==
    LET m == Message(Lookup(cat, id))
    IN  IF Lookup(cat, id) = "over" THEN FormatMessageW_OverReport(cat, id, nSize, slot)
        ELSE IF m = <<>> THEN [len |-> 0, written |-> <<>>, err |-> ERROR_MR_MID_NOT_FOUND]
        ELSE IF Len(m) + 1 > nSize
             THEN [len |-> 0, written |-> <<>>, err |-> ERROR_INSUFFICIENT_BUFFER]
        ELSE [len |-> Len(m), written |-> m \o <<0>>, err |-> slot]

\* GetLastError(): the slot's value; the slot is left as it is.
GetLastError(slot) == [ret |-> slot, slot |-> slot]

(***************************************************************************)
(* The crate                                                               *)
(***************************************************************************)
\* Error::with_code through a 16-bit field: the high half dropped.
with_code_truncating(c) == [code |-> U(0, c.lo)]

\* Error::with_code
with_code(c) == [code |-> c]

\* Error::code that re-reads the live last-error slot.
code_live(self) == lastError

\* Error::code
code(self) == self.code

\* last_error / Error::last: the Error and the slot after the call.
last_error(slot) ==
    LET g == GetLastError(slot)
    IN  [ret |-> with_code(g.ret), slot |-> g.slot]

\* from_hresult / Error::from_hresult
from_hresult(hr) == with_code(AsU32(HRESULT_CODE(hr)))

\* std::slice::from_raw_parts(buf_ptr, len as usize) over the MaybeUninit
\* buffer: `len` units, whatever the host stored in the first of them; a unit
\* the host did not store (uninitialized, or past the buffer's end) reads as g.
raw_slice(written, len, g) ==
    [i \in 1..len |-> IF i <= Len(written) THEN written[i] ELSE g]

\* fmt_error: None when FormatMessageW returns 0, else the decoded slice.
fmt_error(cat, c, slot, g) ==
    LET r == FormatMessageW(cat, c, BUF_SIZE, slot)
    IN  IF r.len = 0
        THEN [some |-> FALSE, text |-> <<>>, sliceLen |-> 0, slot |-> r.err]
        ELSE [some |-> TRUE,
              text |-> from_utf16_lossy(raw_slice(r.written, r.len, g)),
              sliceLen |-> Len(raw_slice(r.written, r.len, g)),
              slot |-> r.err]

\* The host calls of one rendering, in order.
CallFmt(c, r) == [call |-> "FormatMessageW", code |-> c, some |-> r.some, len |-> r.sliceLen]

CallGle(v) == [call |-> "GetLastError", code |-> v, some |-> TRUE, len |-> 0]

LitErrorCode == <<69, 114, 114, 111, 114, 32, 99, 111, 100, 101, 32>>

LitInternalError == <<32, 40, 99, 111, 117, 108, 100, 32, 110, 111, 116, 32, 102, 111, 114, 109, 97, 116, 32, 100, 117, 101, 32, 116, 111, 32, 105, 110, 116, 101, 114, 110, 97, 108, 32, 101, 114, 114, 111, 114, 58, 32>>

LitDash == <<32, 45, 32>>

LitClose == <<41>>

LitInternalErrorCode == <<32, 40, 99, 111, 117, 108, 100, 32, 110, 111, 116, 32, 102, 111, 114, 109, 97, 116, 32, 100, 117, 101, 32, 116, 111, 32, 105, 110, 116, 101, 114, 110, 97, 108, 32, 101, 114, 114, 111, 114, 32, 99, 111, 100, 101, 58, 32>>

\* Debug::fmt formatting self.code() a second time instead of the code the
\* failed attempt left in the slot.
Debug_fmt_SecondaryIsSelf(cat, self, slot, g) ==
    LET first == fmt_error(cat, code(self), slot, g)
    IN  IF first.some
        THEN [out |-> trim(first.text), trace |-> <<CallFmt(code(self), first)>>,
              slot |-> first.slot]
        ELSE LET gle     == last_error(first.slot)
                 fmt_err == code(self)
                 second  == fmt_error(cat, fmt_err, gle.slot, g)
                 calls   == <<CallFmt(code(self), first), CallGle(code(gle.ret)),
                              CallFmt(fmt_err, second)>>
             IN  IF second.some
                 THEN [out   |-> LitErrorCode \o DisplayU32(code(self)) \o LitInternalError
                                   \o DisplayU32(fmt_err) \o LitDash \o trim(second.text)
                                   \o LitClose,
                       trace |-> calls, slot |-> second.slot]
                 ELSE [out   |-> LitErrorCode \o DisplayU32(code(self))
                                   \o LitInternalErrorCode \o DisplayU32(fmt_err) \o LitClose,
                       trace |-> calls, slot |-> second.slot]

\* Debug::fmt reading the last-error slot before the first attempt, so that the
\* secondary code is whatever the slot held when the rendering started.
Debug_fmt_StaleSlot(cat, self, slot, g) ==
    LET gle   == last_error(slot)
        first == fmt_error(cat, code(self), gle.slot, g)
    IN  IF first.some
        THEN [out |-> trim(first.text),
              trace |-> <<CallFmt(code(self), first)>>,
              slot |-> first.slot]
        ELSE LET fmt_err == code(gle.ret)
                 second  == fmt_error(cat, fmt_err, first.slot, g)
                 calls   == <<CallFmt(code(self), first), CallGle(fmt_err),
                              CallFmt(fmt_err, second)>>
             IN  IF second.some
                 THEN [out   |-> LitErrorCode \o DisplayU32(code(self)) \o LitInternalError
                                   \o DisplayU32(fmt_err) \o LitDash \o trim(second.text)
                                   \o LitClose,
                       trace |-> calls, slot |-> second.slot]
                 ELSE [out   |-> LitErrorCode \o DisplayU32(code(self))
                                   \o LitInternalErrorCode \o DisplayU32(fmt_err) \o LitClose,
                       trace |-> calls, slot |-> second.slot]

\* Debug::fmt trying once more when the second attempt fails too.
Debug_fmt_Retry(cat, self, slot, g) ==
    LET first == fmt_error(cat, code(self), slot, g)
    IN  IF first.some
        THEN [out |-> trim(first.text), trace |-> <<CallFmt(code(self), first)>>,
              slot |-> first.slot]
        ELSE LET gle     == last_error(first.slot)
                 fmt_err == code(gle.ret)
                 second  == fmt_error(cat, fmt_err, gle.slot, g)
                 gle2    == last_error(second.slot)
                 third   == fmt_error(cat, code(gle2.ret), gle2.slot, g)
                 calls   == <<CallFmt(code(self), first), CallGle(fmt_err),
                              CallFmt(fmt_err, second)>>
             IN  IF second.some
                 THEN [out   |-> LitErrorCode \o DisplayU32(code(self)) \o LitInternalError
                                   \o DisplayU32(fmt_err) \o LitDash \o trim(second.text)
                                   \o LitClose,
                       trace |-> calls, slot |-> second.slot]
                 ELSE [out   |-> LitErrorCode \o DisplayU32(code(self))
                                   \o LitInternalErrorCode \o DisplayU32(fmt_err) \o LitClose,
                       trace |-> calls \o <<CallGle(code(gle2.ret)),
                                            CallFmt(code(gle2.ret), third)>>,
                       slot |-> third.slot]

\* <Error as Debug>::fmt: what is written, the host calls made, the slot after.
Debug_fmt(cat, self, slot, g) ==
    LET first == fmt_error(cat, code(self), slot, g)
    IN  IF first.some
        THEN [out   |-> trim(first.text),
              trace |-> <<CallFmt(code(self), first)>>,
              slot  |-> first.slot]
        ELSE LET gle     == last_error(first.slot)
                 fmt_err == code(gle.ret)
                 second  == fmt_error(cat, fmt_err, gle.slot, g)
                 calls   == <<CallFmt(code(self), first), CallGle(fmt_err),
                              CallFmt(fmt_err, second)>>
             IN  IF second.some
                 THEN [out   |-> LitErrorCode \o DisplayU32(code(self)) \o LitInternalError
                                   \o DisplayU32(fmt_err) \o LitDash \o trim(second.text)
                                   \o LitClose,
                       trace |-> calls,
                       slot  |-> second.slot]
                 ELSE [out   |-> LitErrorCode \o DisplayU32(code(self))
                                   \o LitInternalErrorCode \o DisplayU32(fmt_err) \o LitClose,
                       trace |-> calls,
                       slot  |-> second.slot]

\* <Error as Display>::fmt
Display_fmt(cat, self, slot, g) == Debug_fmt(cat, self, slot, g)

\* <std::io::Error as From<Error>>::from: the raw OS error number stored.
from_raw_os_error(e) == AsI32(code(e))


(***************************************************************************)
(* The state machine: a thread that constructs Errors, renders them,       *)
(* converts them, and makes other host calls in between.                   *)
(***************************************************************************)
MaxErrs == 1

\* Codes handed to Error::with_code.
CodeInputs == {ERROR_SUCCESS, U(0, 15999), U(32775, 5), U32_MAX}

\* Codes of the temporaries rendered without being kept: test_fmt's
\* "non-existant error code".
TempCodes == {U(0, 15999)}

\* Statuses handed to from_hresult: 0x80070005, 0xFFFFFFFF, 0x80000000,
\* 0x7FFF013D, 0x00010000.
HresultInputs == {-2147024891, -1, I32Min, 2147418429, 65536}

\* Values other host calls leave in the last-error slot.
SlotInputs == {ERROR_SUCCESS, ERROR_ACCESS_DENIED}

\* What a read of a unit the host did not store can yield.  Only a host that
\* reports more than it stored makes fmt_error read such a unit.
Garbage(cat) == IF \E id \in DOMAIN cat : cat[id] = "over" THEN {0, 120} ELSE {0}

PrimaryEntries ==
    {"ok", "pad", "multi", "insert", "blank", "nbsp", "pair", "lone", "full", "long", "none"}

SecondaryEntries == {"nomsg", "blank", "long", "none"}

CatalogOf(p, q) ==
    [id \in {ERROR_SUCCESS, ERROR_MR_MID_NOT_FOUND} |-> IF id = ERROR_SUCCESS THEN p ELSE q]

\* Catalogs of a host that keeps FormatMessageW's contract: every entry for
\* code 0, and, for the fallback's second lookup, every entry for code 317.
Catalogs ==
    {CatalogOf(p, "nomsg") : p \in PrimaryEntries}
        \cup {CatalogOf("none", q) : q \in SecondaryEntries}

\* Catalogs of a host that may also report more units than the buffer holds.
CatalogsAnyHost ==
    {CatalogOf(p, q) : p \in {"ok", "none", "over"}, q \in {"nomsg", "none", "over"}}

NoEvent ==
    [op |-> "init", idx |-> 0, self |-> with_code(ERROR_SUCCESS), arg |-> ERROR_SUCCESS,
     hr |-> 0, slot0 |-> ERROR_SUCCESS, out |-> <<>>, trace |-> <<>>, os |-> 0]

Init ==
    /\ lastError = ERROR_SUCCESS
    /\ catalog \in Catalogs
    /\ errs = <<>>
    /\ ev = NoEvent

InitAnyHost ==
    /\ lastError = ERROR_SUCCESS
    /\ catalog \in CatalogsAnyHost
    /\ errs = <<>>
    /\ ev = NoEvent

\* let e = Error::with_code(c);
WithCode(c) ==
    /\ Len(errs) < MaxErrs
    /\ errs' = Append(errs, with_code(c))
    /\ ev' = [NoEvent EXCEPT !.op = "with_code", !.idx = Len(errs) + 1, !.arg = c,
                             !.slot0 = lastError]
    /\ UNCHANGED <<lastError, catalog>>

\* let e = last_error();  (Error::last() is the same call)
Last ==
    /\ Len(errs) < MaxErrs
    /\ errs' = Append(errs, last_error(lastError).ret)
    /\ lastError' = last_error(lastError).slot
    /\ ev' = [NoEvent EXCEPT !.op = "last_error", !.idx = Len(errs) + 1,
                             !.slot0 = lastError]
    /\ UNCHANGED catalog

\* let e = from_hresult(hr);  (Error::from_hresult(hr) is the same call)
FromHresult(hr) ==
    /\ Len(errs) < MaxErrs
    /\ errs' = Append(errs, from_hresult(hr))
    /\ ev' = [NoEvent EXCEPT !.op = "from_hresult", !.idx = Len(errs) + 1, !.hr = hr,
                             !.slot0 = lastError]
    /\ UNCHANGED <<lastError, catalog>>

\* format!("{:?}", errs[i])
DebugFmt(i, g) ==
    LET r == Debug_fmt(catalog, errs[i], lastError, g)
    IN  /\ ev' = [NoEvent EXCEPT !.op = "Debug", !.idx = i, !.self = errs[i],
                                 !.slot0 = lastError, !.out = r.out, !.trace = r.trace]
        /\ lastError' = r.slot
        /\ UNCHANGED <<catalog, errs>>

\* format!("{}", errs[i])
DisplayFmt(i, g) ==
    LET r == Display_fmt(catalog, errs[i], lastError, g)
    IN  /\ ev' = [NoEvent EXCEPT !.op = "Display", !.idx = i, !.self = errs[i],
                                 !.slot0 = lastError, !.out = r.out, !.trace = r.trace]
        /\ lastError' = r.slot
        /\ UNCHANGED <<catalog, errs>>

\* format!("{}", Error::with_code(c)): a temporary Error rendered and dropped,
\* as test_fmt does, while the Errors constructed before stay alive.
DisplayTemp(c, g) ==
    LET r == Display_fmt(catalog, with_code(c), lastError, g)
    IN  /\ ev' = [NoEvent EXCEPT !.op = "Display", !.idx = 0, !.self = with_code(c),
                                 !.arg = c, !.slot0 = lastError,
                                 !.out = r.out, !.trace = r.trace]
        /\ lastError' = r.slot
        /\ UNCHANGED <<catalog, errs>>

\* let io: std::io::Error = errs[i].into();
IntoIoError(i) ==
    /\ ev' = [NoEvent EXCEPT !.op = "into_io", !.idx = i, !.slot0 = lastError,
                             !.os = from_raw_os_error(errs[i])]
    /\ UNCHANGED <<lastError, catalog, errs>>

\* Any other host call of the thread: it leaves v in the last-error slot.
HostCall(v) ==
    /\ lastError' = v
    /\ ev' = [NoEvent EXCEPT !.op = "host", !.slot0 = lastError]
    /\ UNCHANGED <<catalog, errs>>

Next ==
    \/ \E c \in CodeInputs : WithCode(c)
    \/ Last
    \/ \E hr \in HresultInputs : FromHresult(hr)
    \/ \E i \in DOMAIN errs, g \in Garbage(catalog) : DebugFmt(i, g)
    \/ \E i \in DOMAIN errs, g \in Garbage(catalog) : DisplayFmt(i, g)
    \/ \E c \in TempCodes, g \in Garbage(catalog) : DisplayTemp(c, g)
    \/ \E i \in DOMAIN errs : IntoIoError(i)
    \/ \E v \in SlotInputs : HostCall(v)

Spec == Init /\ [][Next]_vars

SpecAnyHost == InitAnyHost /\ [][Next]_vars


(***************************************************************************)
(* The claims                                                              *)
(***************************************************************************)
\* The last operation was a rendering (Debug or Display) of the Error ev.self.
Rendered == ev.op \in {"Debug", "Display"}

\* The rendering took the fallback path: its first format attempt gave nothing.
FellBack == Rendered /\ Len(ev.trace) >= 1 /\ ~ev.trace[1].some

\* The rendering took the success path: its first format attempt gave text.
Succeeded == Rendered /\ Len(ev.trace) >= 1 /\ ev.trace[1].some

\* The decimal numerals of the codes the model renders, written out.
Numeral(c) ==
    CASE c = U(0, 0)         -> <<48>>
      [] c = U(0, 5)         -> <<53>>
      [] c = U(0, 122)       -> <<49, 50, 50>>
      [] c = U(0, 317)       -> <<51, 49, 55>>
      [] c = U(0, 15999)     -> <<49, 53, 57, 57, 57>>
      [] c = U(0, 65535)     -> <<54, 53, 53, 51, 53>>
      [] c = U(32775, 5)     -> <<50, 49, 52, 55, 57, 52, 50, 52, 48, 53>>
      [] c = U(65535, 65535) -> <<52, 50, 57, 52, 57, 54, 55, 50, 57, 53>>

\* The text the host holds for a message id under FormatMessageW's contract:
\* <<>> when the id has no message or the message does not fit the buffer.
HostText(id) ==
    LET m == Message(Lookup(catalog, id))
    IN  IF Len(m) + 1 > BUF_SIZE THEN <<>> ELSE m

\* The code a failed FormatMessageW(id) leaves in the last-error slot.
HostFailure(id) ==
    IF Message(Lookup(catalog, id)) = <<>> THEN ERROR_MR_MID_NOT_FOUND
    ELSE ERROR_INSUFFICIENT_BUFFER

\* out is text without some leading and some trailing whitespace, and neither
\* begins nor ends with whitespace.
IsTrimOf(out, text) ==
    /\ Len(out) <= Len(text)
    /\ \E a \in 0..(Len(text) - Len(out)) :
          /\ out = SubSeq(text, a + 1, a + Len(out))
          /\ \A i \in 1..a : IsWhitespace(text[i])
          /\ \A i \in (a + Len(out) + 1)..Len(text) : IsWhitespace(text[i])
    /\ out # <<>> => ~IsWhitespace(out[1]) /\ ~IsWhitespace(out[Len(out)])

\* C1: when the first format attempt of a rendering of code c yields nothing,
\* the rendering reads the last-error slot after that attempt (the value s the
\* failed attempt left there, not c and not what the slot held before) and
\* formats s; with text t the output is exactly
\* "Error code c (could not format due to internal error: s - trim(t))", with
\* nothing it is exactly
\* "Error code c (could not format due to internal error code: s)".  Both start
\* with "Error code c" and the two differ.
C1_FallbackRendering ==
    FellBack =>
        LET c    == ev.self.code
            s    == HostFailure(c)
            t    == from_utf16_lossy(HostText(s))
            head == <<69, 114, 114, 111, 114, 32, 99, 111, 100, 101, 32>> \o Numeral(c)
            withText == head \o <<32, 40, 99, 111, 117, 108, 100, 32, 110, 111, 116, 32, 102, 111, 114, 109, 97, 116, 32, 100, 117, 101, 32, 116, 111, 32, 105, 110, 116, 101, 114, 110, 97, 108, 32, 101, 114, 114, 111, 114, 58, 32>>
                             \o Numeral(s) \o <<32, 45, 32>> \o trim(t) \o <<41>>
            withCode == head \o <<32, 40, 99, 111, 117, 108, 100, 32, 110, 111, 116, 32, 102, 111, 114, 109, 97, 116, 32, 100, 117, 101, 32, 116, 111, 32, 105, 110, 116, 101, 114, 110, 97, 108, 32, 101, 114, 114, 111, 114, 32, 99, 111, 100, 101, 58, 32>>
                             \o Numeral(s) \o <<41>>
        IN  /\ Len(ev.trace) = 3
            /\ ev.trace[1].call = "FormatMessageW" /\ ev.trace[1].code = c
            /\ ev.trace[2].call = "GetLastError" /\ ev.trace[2].code = s
            /\ ev.trace[3].call = "FormatMessageW" /\ ev.trace[3].code = s
            /\ ev.trace[3].some <=> HostText(s) # <<>>
            /\ ev.trace[3].some => ev.out = withText
            /\ ~ev.trace[3].some => ev.out = withCode
            /\ SubSeq(ev.out, 1, Len(head)) = head
            /\ withText # withCode

\* A fallback rendering whose secondary code differs from the code rendered and
\* from what the slot held before, with text for the secondary code.
C1_Witness_WithText ==
    /\ FellBack /\ ev.trace[3].some
    /\ ev.trace[2].code # ev.self.code
    /\ ev.trace[2].code # ev.slot0
    /\ ev.self.code = U(0, 15999)

\* C2: when the host writes a message of n > 0 code units for the code, the
\* rendering (Debug and Display alike) outputs exactly the decoded message
\* without its leading and trailing whitespace, every interior character as it
\* is (line breaks and "%1" included), and the last-error slot is not read.
C2_SuccessRendering ==
    (Rendered /\ HostText(ev.self.code) # <<>>) =>
        LET m    == HostText(ev.self.code)
            text == from_utf16_lossy(m)
        IN  /\ Succeeded
            /\ Len(ev.trace) = 1 /\ ev.trace[1].call = "FormatMessageW"
            /\ ev.trace[1].len = Len(m)
            /\ (\A i \in 1..Len(m) : ~IsHighSurrogate(m[i]) /\ ~IsLowSurrogate(m[i]))
                  => text = m
            /\ IsTrimOf(ev.out, text)
            /\ lastError = ev.slot0

\* A Display rendering of a multi-line message with a placeholder: the interior
\* line break and the placeholder are in the output, the trailing one is not.
C2_Witness_MultiLine ==
    /\ ev.op = "Display" /\ Succeeded
    /\ Lookup(catalog, ev.self.code) = "multi"
    /\ ev.out = <<123, 88, 125, 13, 10, 89, 32, 37, 104, 115>>

\* C3: a rendering never returns an empty string, whatever the code and
\* whatever the host's message for it (a message of whitespace only included).
C3_NeverEmpty == Rendered => ev.out # <<>>

\* The values the last-error slot is started from when two runs are compared.
SlotValues ==
    {ERROR_SUCCESS, ERROR_ACCESS_DENIED, ERROR_INSUFFICIENT_BUFFER,
     ERROR_MR_MID_NOT_FOUND, U32_MAX}

\* C4: for a fixed code and catalog the output does not depend on what the
\* last-error slot held when the rendering started: started from any other slot
\* value, the same rendering gives the same output.
C4_Deterministic ==
    Rendered =>
        \A s0 \in SlotValues, g \in Garbage(catalog) :
            /\ Debug_fmt(catalog, ev.self, s0, g).out = ev.out
            /\ Display_fmt(catalog, ev.self, s0, g).out = ev.out

\* A fallback rendering started with a slot value other than the secondary code.
C4_Witness_Fallback ==
    /\ FellBack /\ Len(ev.trace) = 3
    /\ ev.slot0 = ERROR_ACCESS_DENIED
    /\ ev.trace[2].code # ev.slot0

\* C5: from_hresult(status) yields the low 16 bits of the status's
\* two's-complement pattern, for negative statuses too; the code is in
\* 0..65535 and statuses that differ only above bit 15 yield the same code.
C5_LowSixteenBits ==
    ev.op = "from_hresult" =>
        LET c == code(errs[ev.idx])
        IN  /\ c.hi = 0
            /\ c.lo \in 0..65535
            /\ c.lo = ev.hr % 65536
            /\ \A hr \in HresultInputs :
                  (hr % 65536 = ev.hr % 65536) => from_hresult(hr) = errs[ev.idx]

\* A failure-flagged status with a facility: 0x80070005 gives code 5.
C5_Witness_Negative ==
    /\ ev.op = "from_hresult" /\ ev.hr = -2147024891
    /\ errs[ev.idx].code = U(0, 5)

\* The codes whose OS error numbers are compared.
CodeValues ==
    CodeInputs \cup SlotValues \cup {U(0, 15999), U(0, 65535), U(32768, 0), U(32767, 65535)}

\* C6: the conversion to the OS-error value stores the code's 32-bit signed
\* reinterpretation (c below 2^31, c - 2^32 otherwise); read back as unsigned it
\* is c again, and distinct codes give distinct OS error numbers.
C6_SignedReinterpretation ==
    ev.op = "into_io" =>
        LET c == errs[ev.idx].code
        IN  /\ c.hi < 32768 => ev.os = c.hi * 65536 + c.lo
            /\ c.hi >= 32768 =>
                  /\ ev.os < 0
                  \* ev.os = c - 2^32, stated as ev.os + 2^31 = c - 2^31
                  /\ (ev.os + 2147483647) + 1 = (c.hi - 32768) * 65536 + c.lo
            /\ AsU32(ev.os) = c
            /\ \A d \in CodeValues :
                  d # c => from_raw_os_error(with_code(d)) # ev.os

\* The conversion of u32::MAX: the OS error number is -1.
C6_Witness_Max ==
    /\ ev.op = "into_io" /\ errs[ev.idx].code = U32_MAX /\ ev.os = -1

\* C7: an Error is a snapshot.  A capture returns the slot's value at the call
\* and leaves the slot as it is; and no later step (a host call that overwrites
\* the slot, a rendering of this or of another Error, a construction) changes
\* what code() returns for an Error that exists.
C7_Snapshot ==
    [][ /\ \A i \in DOMAIN errs :
              i \in DOMAIN errs' /\ code(errs[i])' = code(errs[i])
        /\ ev'.op = "last_error" =>
              /\ code(errs[ev.idx])' = lastError
              /\ lastError' = lastError ]_vars

\* An Error holding the slot's earlier value 5 after the fallback rendering of
\* another Error has overwritten the slot with 317.
C7_Witness_Overwritten ==
    /\ FellBack /\ ev.idx = 0 /\ Len(errs) >= 1 /\ ev.self # errs[1]
    /\ ev.slot0 = ERROR_ACCESS_DENIED
    /\ code(errs[1]) = ERROR_ACCESS_DENIED
    /\ lastError = ERROR_MR_MID_NOT_FOUND

\* C8: with_code(c).code() = c for every u32 c; nothing is validated, and a
\* code with no message is accepted as it is.
C8_WithCodeRoundTrip ==
    ev.op = "with_code" => /\ code(errs[ev.idx]) = ev.arg
                           /\ IsU32(code(errs[ev.idx]))

\* with_code(u32::MAX), a code the host has no message for.
C8_Witness_Max ==
    /\ ev.op = "with_code" /\ ev.arg = U32_MAX
    /\ Lookup(catalog, ev.arg) = "none"
    /\ errs[ev.idx].code = U32_MAX

\* C9: a rendering makes at most two FormatMessageW calls and at most one read
\* of the last-error slot; the read and the second call happen only after the
\* first call returned nothing, and a failed second attempt is not retried.
C9_BoundedHostCalls ==
    Rendered =>
        LET fmts == {i \in DOMAIN ev.trace : ev.trace[i].call = "FormatMessageW"}
            gles == {i \in DOMAIN ev.trace : ev.trace[i].call = "GetLastError"}
        IN  /\ Cardinality(fmts) \in 1..2
            /\ Cardinality(gles) <= 1
            /\ 1 \in fmts
            /\ \A i \in (fmts \cup gles) \ {1} : ~ev.trace[1].some
            /\ \A i \in gles : i = 2
            /\ \A i \in fmts : i \in {1, 3}
            /\ Len(ev.trace) \in {1, 3}
            /\ ev.trace[1].some => Len(ev.trace) = 1

\* A rendering whose second attempt failed too: three host calls, no more.
C9_Witness_SecondFailed ==
    /\ FellBack /\ Len(ev.trace) = 3 /\ ~ev.trace[3].some
    /\ ev.out # <<>>

\* C10: fmt_error never decodes more code units than the buffer holds: whatever
\* length the host reports, the slice decoded has at most BUF_SIZE units.
C10_SliceWithinBuffer ==
    Rendered =>
        \A i \in DOMAIN ev.trace :
            ev.trace[i].call = "FormatMessageW" => ev.trace[i].len <= BUF_SIZE


====
